---- MODULE Spec2Model ----
(***************************************************************************)
(* A state-machine model of se3_transformer_pytorch.py.                    *)
(*                                                                         *)
(* Tensors are modelled for one batch element.  Point indices, neighbour   *)
(* slots and positions in the "other points" axis are 0-based, as in the   *)
(* source.  Real-valued quantities are exact integers or exact fractions   *)
(* [num, den]; a fraction with den = 0 is the NaN a float division by a    *)
(* zero count produces.                                                    *)
(***************************************************************************)
EXTENDS Integers, Sequences, FiniteSets, TLC

VARIABLES
    pc,                \* position inside the call being modelled
    \* ---- SE3Transformer.forward, graph construction -----------------------
    coors,             \* coors[i] : the 3-vector of point i
    mask,              \* point validity mask, or NoMask (mask = None)
    feats,             \* degree-0 input features, one channel: feats[i]
    num_neighbors,     \* self.num_neighbors
    tie,               \* how topk orders equal distances (implementation-defined)
    graph,             \* the locals of forward after line 527
    x,                 \* the features after conv_in
    params,            \* the learned parameters of the layers
    prev,              \* graph and x of the previous call (translation check)
    shifted,           \* whether the coordinates were translated already
    \* ---- ResidualSE3.forward ----------------------------------------------
    res_x,             \* the argument x: degree key -> tensor
    res_res,           \* the argument res: degree key -> tensor
    res_out,           \* the dict `out`
    \* ---- ConvSE3.forward --------------------------------------------------
    conv,              \* the module's configuration and the call's arguments
    conv_edge,         \* `output` of line 370: per degree, point and slot
    conv_output,       \* `output` after line 373, per output degree and point
    conv_outputs,      \* the returned dict
    \* ---- AttentionSE3.forward ---------------------------------------------
    attn,              \* the module's configuration and the call's arguments
    attn_qkv,          \* queries, keys, values (and self keys and values)
    attn_weighted,     \* `outputs` as the loop of lines 192-222 leaves it
    attn_outputs,      \* the returned dict
    \* ---- SE3Transformer.forward, shapes -----------------------------------
    cfg,               \* the constructor's arguments
    call,              \* the arguments of forward
    fx,                \* the shapes of x: degree -> <<batch, points, channels, 2d+1>>
    fk,                \* neighbors = min(num_neighbors, n - 1)
    blocks,            \* the number of (attention, feedforward) layers run
    result             \* what forward returned

graphVars == <<coors, mask, feats, num_neighbors, tie, graph, x, params, prev, shifted>>

residualVars == <<res_x, res_res, res_out>>

convVars == <<conv, conv_edge, conv_output, conv_outputs>>

attnVars == <<attn, attn_qkv, attn_weighted, attn_outputs>>

fwdVars == <<cfg, call, fx, fk, blocks, result>>

vars == <<pc, graphVars, residualVars, convVars, attnVars, fwdVars>>

\* mask = None: a mask over no points
NoMask == << >>
Unset  == "unset"

\* the variables of the calls a specification does not make
GraphIdle ==
    /\ coors = Unset /\ mask = Unset /\ feats = Unset /\ num_neighbors = Unset
    /\ tie = Unset /\ graph = Unset /\ x = Unset /\ params = Unset
    /\ prev = Unset /\ shifted = Unset

ResidualIdle == res_x = Unset /\ res_res = Unset /\ res_out = Unset

ConvIdle ==
    conv = Unset /\ conv_edge = Unset /\ conv_output = Unset /\ conv_outputs = Unset

AttnIdle ==
    attn = Unset /\ attn_qkv = Unset /\ attn_weighted = Unset /\ attn_outputs = Unset

FwdIdle ==
    /\ cfg = Unset /\ call = Unset /\ fx = Unset /\ fk = Unset
    /\ blocks = Unset /\ result = Unset
(***************************************************************************)
(* Bounds of the model.                                                    *)
(***************************************************************************)
MaxPoints    == 3      \* 2 .. MaxPoints points per cloud
MaxChannels  == 3      \* a tensor has 1 .. MaxChannels channels
MaxDegrees   == 2      \* num_degrees ranges over 1 .. MaxDegrees
MaxDepth     == 2      \* depth ranges over 0 .. MaxDepth
ConvPoints   == 2      \* points of the cloud a single layer is run on
ConvSlots    == 2      \* neighbour slots per point in that cloud
MaxNeighbors == 2      \* num_neighbors ranges over 1 .. MaxNeighbors
FixedPoint   == 4      \* distances are kept to 1/FixedPoint

Positions == { <<0, 0, 0>>, <<1, 0, 0>>, <<0, 1, 0>>, <<0, 0, 2>> }
Shifts    == { <<1, 0, 0>>, <<-1, 2, 3>> }
TiePolicies == { "low", "high" }

Points(n) == 0 .. (n - 1)

(***************************************************************************)
(* Helpers                                                                 *)
(***************************************************************************)
\* exists(val): val is not None
exists(val) == DOMAIN val # {}

Min(a, b) == IF a <= b THEN a ELSE b

RECURSIVE SumOver(_, _)
SumOver(S, f) ==
    IF S = {} THEN 0
    ELSE LET e == CHOOSE e \in S : TRUE IN f[e] + SumOver(S \ {e}, f)

RECURSIVE ISqrtFrom(_, _)
ISqrtFrom(r, v) == IF (r + 1) * (r + 1) > v THEN r ELSE ISqrtFrom(r + 1, v)

\* the integer part of the square root
ISqrt(v) == ISqrtFrom(0, v)

\* t.norm(dim = -1) of a 3-vector, in units of 1/FixedPoint
Norm(v) == ISqrt(FixedPoint * FixedPoint * (v[1] * v[1] + v[2] * v[2] + v[3] * v[3]))

VecSub(a, b) == <<a[1] - b[1], a[2] - b[2], a[3] - b[3]>>
VecAdd(a, b) == <<a[1] + b[1], a[2] + b[2], a[3] + b[3]>>

\* tensor.masked_select(exclude_self_mask).reshape(n, n - 1): row i keeps the
\* entries of the columns j # i, in column order; position p of the result is
\* column p for p < i and column p + 1 otherwise.
ExcludeSelf(n, t) ==
    [i \in Points(n) |-> [p \in 0 .. (n - 2) |-> t[i][IF p < i THEN p ELSE p + 1]]]

\* rel_dist.topk(k, dim = -1, largest = False) on one row: the positions of the
\* k smallest entries, smallest first.  Equal entries are ordered by position,
\* lowest first or highest first: the order among ties is the library's.
Before(row, q, p, t) ==
    \/ row[q] < row[p]
    \/ row[q] = row[p] /\ (IF t = "low" THEN q < p ELSE q > p)

TopKIndices(row, k, t) ==
    [j \in 0 .. (k - 1) |->
        CHOOSE p \in DOMAIN row :
            Cardinality({q \in DOMAIN row : Before(row, q, p, t)}) = j]

\* batched_index_select(values, indices, dim = 2): out[i][j] = values[i][indices[i][j]]
batched_index_select2(values, indices) ==
    [i \in DOMAIN indices |-> [j \in DOMAIN indices[i] |-> values[i][indices[i][j]]]]

\* batched_index_select(values, indices, dim = 1): out[i][j] = values[indices[i][j]]
batched_index_select1(values, indices) ==
    [i \in DOMAIN indices |-> [j \in DOMAIN indices[i] |-> values[indices[i][j]]]]

(***************************************************************************)
(* Fractions: the result of a float division, kept exact.                  *)
(***************************************************************************)
Frac(n, d) == [num |-> n, den |-> d]

IsNaN(f) == f.den = 0

\* a / b = c / d as real numbers (both defined)
FracEq(f, g) == f.den # 0 /\ g.den # 0 /\ f.num * g.den = g.num * f.den

FracAddInt(f, v) == Frac(f.num + v * f.den, f.den)

(***************************************************************************)
(* Learned parameters.  A network's weights are fixed during a call; the   *)
(* model draws them from ParamChoices.  Every PairwiseConv owns its own    *)
(* radial network, every LinearSE3 its own matrix per degree; with one     *)
(* channel and one frequency each is a scalar function.                    *)
(***************************************************************************)
ParamChoices ==
    { [radial_w |-> 1, radial_b |-> 0, linear_w |-> 1],
      [radial_w |-> 2, radial_b |-> 1, linear_w |-> 3] }

\* RadialFunc.forward on the scalar distance of one edge, for the kernel of
\* the pair (di, do)
RadialFunc(p, di, do, d) == (p.radial_w + di) * d + p.radial_b + do

\* get_basis(neighbor_rel_pos, max_degree): for every pair (di, do) with
\* di, do <= max_degree, a tensor per edge that depends on the edge's
\* relative position only.
BasisEl(di, do, v) == 1 + (((di + 1) * v[1] + (do + 1) * v[2] + v[3]) % 3)

get_basis(neighbor_rel_pos, max_degree) ==
    [e \in (0 .. max_degree) \X (0 .. max_degree) |->
        [i \in DOMAIN neighbor_rel_pos |->
            [j \in DOMAIN neighbor_rel_pos[i] |->
                BasisEl(e[1], e[2], neighbor_rel_pos[i][j])]]]

\* PairwiseConv.forward: kernel = sum over frequencies of R * basis
PairwiseConv(p, di, do, rel_dist_ij, basis_ij) ==
    RadialFunc(p, di, do, rel_dist_ij) * basis_ij

\* mutant: the sum of the valid entries divided by the number of all entries
masked_mean_DivideByAll(row, maskrow) ==
    LET filled == [j \in DOMAIN row |-> IF maskrow[j] THEN row[j] ELSE 0]
    IN  Frac(SumOver(DOMAIN row, filled), Cardinality(DOMAIN row))

(***************************************************************************)
(* masked_mean(tensor, mask, dim): zero the entries whose mask is false,   *)
(* sum over the axis and divide by the number of true mask entries.        *)
(***************************************************************************)
masked_mean(row, maskrow) ==
    LET filled == [j \in DOMAIN row |-> IF maskrow[j] THEN row[j] ELSE 0]
        count  == [j \in DOMAIN row |-> IF maskrow[j] THEN 1 ELSE 0]
    IN  Frac(SumOver(DOMAIN row, filled), SumOver(DOMAIN row, count))

\* tensor.mean(dim)
mean(row) == Frac(SumOver(DOMAIN row, row), Cardinality(DOMAIN row))

(***************************************************************************)
(* LinearSE3.forward: one weight per degree of fiber_in & fiber_out; the   *)
(* output has exactly those degrees.                                       *)
(***************************************************************************)
LinearWeight(p, degree) == p.linear_w + degree

LinearSE3(p, fiber_in, fiber_out, inp) ==
    [degree \in fiber_in \cap fiber_out |->
        [i \in DOMAIN inp[degree] |-> inp[degree][i] * LinearWeight(p, degree)]]

(***************************************************************************)
(* ConvSE3.forward.  inp[di][i] is the feature of point i in degree di.    *)
(* edge_out is the tensor `output` of line 370, per output degree, point   *)
(* and neighbour slot.                                                     *)
(***************************************************************************)
ConvEdgeOut(p, fiber_in, fiber_out, inp, nbr_indices, rel_dist, basis) ==
    [do \in fiber_out |->
        [i \in DOMAIN nbr_indices |->
            [j \in DOMAIN nbr_indices[i] |->
                LET term == [di \in fiber_in |->
                        PairwiseConv(p, di, do, rel_dist[i][j], basis[<<di, do>>][i][j])
                          * batched_index_select1(inp[di], nbr_indices)[i][j]]
                IN  SumOver(fiber_in, term)]]]

ConvPool(edge_out, nbr_masks) ==
    [do \in DOMAIN edge_out |->
        [i \in DOMAIN edge_out[do] |->
            IF exists(nbr_masks)
            THEN masked_mean(edge_out[do][i], nbr_masks[i])
            ELSE mean(edge_out[do][i])]]

\* self_interact_sum(outputs, self_interact_out): ResidualSE3 on the pooled
\* output, whose degrees are those of fiber_out
ConvSelfInteract(p, fiber_in, fiber_out, inp, pooled) ==
    LET self_out == LinearSE3(p, fiber_in, fiber_out, inp)
    IN  [do \in DOMAIN pooled |->
            IF do \in DOMAIN self_out
            THEN [i \in DOMAIN pooled[do] |-> FracAddInt(pooled[do][i], self_out[do][i])]
            ELSE pooled[do]]

ConvSE3Pooled(p, fiber_in, fiber_out, self_interaction, inp, nbr_indices, nbr_masks, rel_dist, basis) ==
    LET edge_out == ConvEdgeOut(p, fiber_in, fiber_out, inp, nbr_indices, rel_dist, basis)
        pooled   == ConvPool(edge_out, nbr_masks)
    IN  IF self_interaction
        THEN ConvSelfInteract(p, fiber_in, fiber_out, inp, pooled)
        ELSE pooled

(***************************************************************************)
(* SE3Transformer.forward, lines 499-527: the neighbour graph.             *)
(***************************************************************************)
\* repeat(torch.arange(n), 'i -> b i j', b = b, j = n): the input axis is
\* named i, so entry [i][j] of the result is arange(n)[i]
ArangeRepeat(n) == [i \in Points(n) |-> [j \in Points(n) |-> i]]

\* mutant: the positions themselves instead of their differences
RelPos_Absolute(n, c) == [i \in Points(n) |-> [j \in Points(n) |-> c[j]]]

\* rearrange(coors, 'b n d -> b n () d') - rearrange(coors, 'b n d -> b () n d')
RelPos(n, c) == [i \in Points(n) |-> [j \in Points(n) |-> VecSub(c[i], c[j])]]

\* mutant: only the neighbour's validity, not the centre point's
PairMask_NeighborOnly(n, m) == [i \in Points(n) |-> [j \in Points(n) |-> m[j]]]

\* rearrange(mask, 'b i -> b i ()') * rearrange(mask, 'b j -> b () j')
PairMask(n, m) == [i \in Points(n) |-> [j \in Points(n) |-> m[i] /\ m[j]]]

BuildGraph(c, m, nn, t, num_degrees) ==
    LET n         == Cardinality(DOMAIN c)
        neighbors == Min(nn, n - 1)
        indices   == ExcludeSelf(n, ArangeRepeat(n))
        rel_pos   == ExcludeSelf(n, RelPos(n, c))
        pmask     == IF exists(m) THEN ExcludeSelf(n, PairMask(n, m)) ELSE NoMask
        rel_dist  == [i \in Points(n) |-> [q \in 0 .. (n - 2) |-> Norm(rel_pos[i][q])]]
        nearest_indices   == [i \in Points(n) |-> TopKIndices(rel_dist[i], neighbors, t)]
        neighbor_rel_dist == batched_index_select2(rel_dist, nearest_indices)
        neighbor_rel_pos  == batched_index_select2(rel_pos, nearest_indices)
        neighbor_indices  == batched_index_select2(indices, nearest_indices)
    IN  [ neighbors         |-> neighbors,
          rel_dist          |-> rel_dist,
          nearest_indices   |-> nearest_indices,
          neighbor_rel_dist |-> neighbor_rel_dist,
          neighbor_rel_pos  |-> neighbor_rel_pos,
          neighbor_indices  |-> neighbor_indices,
          basis             |-> get_basis(neighbor_rel_pos, num_degrees - 1),
          neighbor_mask     |-> IF exists(m)
                                THEN batched_index_select2(pmask, nearest_indices)
                                ELSE NoMask ]

(***************************************************************************)
(* SE3Transformer with the constructor's defaults for the degrees: a raw   *)
(* feature tensor is given (degree 0 only), the hidden fiber has           *)
(* num_degrees degrees.                                                    *)
(***************************************************************************)
num_degrees   == 2
input_degrees == 1

\* Fiber.create(num_degrees, dim): the degrees 0 .. num_degrees - 1
FiberCreate(nd) == 0 .. (nd - 1)

GraphParams == [radial_w |-> 2, radial_b |-> 1, linear_w |-> 3]

\* the input features: a different value at every point
GraphFeats(n) == [i \in Points(n) |-> i + 1]

GraphInit ==
    /\ pc = "forward"
    /\ \E n \in 2 .. MaxPoints :
          /\ coors \in [Points(n) -> Positions]
          /\ mask \in {NoMask} \cup [Points(n) -> BOOLEAN]
          /\ feats = GraphFeats(n)
    /\ num_neighbors \in 1 .. MaxNeighbors
    /\ tie \in TiePolicies
    /\ params = GraphParams
    /\ graph = Unset
    /\ x = Unset
    /\ prev = Unset
    /\ shifted = FALSE
    /\ ResidualIdle
    /\ ConvIdle
    /\ AttnIdle
    /\ FwdIdle

\* lines 499-527
ForwardBuildGraph ==
    /\ pc = "forward"
    /\ graph' = BuildGraph(coors, mask, num_neighbors, tie, num_degrees)
    /\ pc' = "conv_in"
    /\ UNCHANGED <<coors, mask, feats, num_neighbors, tie, params, x, prev, shifted>>
    /\ UNCHANGED <<residualVars, convVars, attnVars, fwdVars>>

\* line 534: x = self.conv_in(x, edge_info, rel_dist = neighbor_rel_dist, basis = basis)
ForwardConvIn ==
    /\ pc = "conv_in"
    /\ x' = ConvSE3Pooled(params, FiberCreate(input_degrees), FiberCreate(num_degrees),
                          TRUE, [d \in FiberCreate(input_degrees) |-> feats],
                          graph.neighbor_indices, graph.neighbor_mask,
                          graph.neighbor_rel_dist, graph.basis)
    /\ pc' = "done"
    /\ UNCHANGED <<coors, mask, feats, num_neighbors, tie, params, graph, prev, shifted>>
    /\ UNCHANGED <<residualVars, convVars, attnVars, fwdVars>>

\* The same module is called again on the same input with every coordinate
\* moved by the same vector.
CallTranslated ==
    /\ pc = "done"
    /\ ~shifted
    /\ \E s \in Shifts : coors' = [i \in DOMAIN coors |-> VecAdd(coors[i], s)]
    /\ prev' = [coors |-> coors, graph |-> graph, x |-> x]
    /\ shifted' = TRUE
    /\ graph' = Unset
    /\ x' = Unset
    /\ pc' = "forward"
    /\ UNCHANGED <<mask, feats, num_neighbors, tie, params>>
    /\ UNCHANGED <<residualVars, convVars, attnVars, fwdVars>>

GraphNext == ForwardBuildGraph \/ ForwardConvIn \/ CallTranslated

SpecGraph == GraphInit /\ [][GraphNext]_vars

GraphBuilt == pc \in {"conv_in", "done"}

NumPts == Cardinality(DOMAIN coors)

\* the point that sits at position p of row i once the diagonal is removed
PointAt(i, p) == IF p < i THEN p ELSE p + 1

Dist(i, q) == Norm(VecSub(coors[i], coors[q]))

Slots == 0 .. (Min(num_neighbors, NumPts - 1) - 1)

\* C1: for every point i and slot j < k = min(num_neighbors, n - 1),
\* neighbor_indices[i][j] is not i, it is the index of the point at distance
\* neighbor_rel_dist[i][j] from i, and the selected points are the k nearest
\* others (each selected point is at most as far as each unselected other).
C1_NeighborIndicesAreNearestOthers ==
    GraphBuilt =>
        \A i \in Points(NumPts) :
            LET sel == { graph.neighbor_indices[i][j] : j \in Slots }
            IN  /\ DOMAIN graph.neighbor_indices[i] = Slots
                /\ \A j \in Slots :
                      /\ graph.neighbor_indices[i][j] # i
                      /\ Dist(i, graph.neighbor_indices[i][j]) = graph.neighbor_rel_dist[i][j]
                /\ Cardinality(sel) = Cardinality(Slots)
                /\ \A s \in sel : \A q \in Points(NumPts) \ (sel \cup {i}) :
                      Dist(i, s) <= Dist(i, q)

\* C10: with a point mask, the k selected points are the k nearest others by
\* distance whatever the mask says, and neighbor_mask[i][j] is true exactly
\* when point i and the point in the j-th nearest slot of i are both valid;
\* so an invalid point, and a valid point whose k nearest others are all
\* invalid, has no valid neighbour, and the pooled convolution divides by a
\* count of zero for it.
ValidCount(i) == Cardinality({ j \in Slots : graph.neighbor_mask[i][j] })

C10_NeighborMaskFollowsDistanceSelection ==
    (GraphBuilt /\ exists(mask)) =>
        \A i \in Points(NumPts) :
            LET sel == { graph.nearest_indices[i][j] : j \in Slots }
            IN  /\ Cardinality(sel) = Cardinality(Slots)
                /\ \A p \in 0 .. (NumPts - 2) :
                      graph.rel_dist[i][p] = Dist(i, PointAt(i, p))
                /\ \A p \in sel : \A q \in (0 .. (NumPts - 2)) \ sel :
                      Dist(i, PointAt(i, p)) <= Dist(i, PointAt(i, q))
                /\ \A j \in Slots :
                      graph.neighbor_mask[i][j]
                        = (mask[i] /\ mask[PointAt(i, graph.nearest_indices[i][j])])
                /\ (~mask[i]) => ValidCount(i) = 0
                /\ (\A j \in Slots : ~mask[PointAt(i, graph.nearest_indices[i][j])])
                      => ValidCount(i) = 0
                /\ (pc = "done") =>
                      \A d \in FiberCreate(num_degrees) :
                          /\ x[d][i].den = ValidCount(i)
                          /\ (ValidCount(i) = 0) => IsNaN(x[d][i])

\* a valid point whose nearest others are all invalid, while a valid point
\* exists farther away, after conv_in divided by its zero count
C10_Witness ==
    /\ pc = "done"
    /\ exists(mask)
    /\ \E i \in Points(NumPts) :
          /\ mask[i]
          /\ \E q \in Points(NumPts) \ {i} : mask[q]
          /\ ValidCount(i) = 0
          /\ IsNaN(x[0][i])

\* C3: adding the same vector to every point's coordinates leaves the
\* relative positions and distances, the selected neighbours, the neighbour
\* mask, the basis and the output of the call unchanged.
C3_TranslationInvariance ==
    shifted =>
        /\ GraphBuilt => graph = prev.graph
        /\ (pc = "done") => x = prev.x

C3_Witness ==
    /\ shifted
    /\ pc = "done"
    /\ coors # prev.coors
    /\ exists(mask)
    /\ \E i \in Points(NumPts) : ~IsNaN(x[1][i])

(***************************************************************************)
(* ResidualSE3.forward(x, res).  A feature map is a function from degree   *)
(* keys (strings, as every dict of the module is keyed) to tensors.  The   *)
(* two tensors of one degree share the batch, point and spatial axes, so a *)
(* tensor is modelled along its channel axis: tensor[c] is channel c.      *)
(***************************************************************************)
DegreeKeys == { "0", "1" }

Tensors ==
    UNION { { [c \in 1 .. n |-> 1], [c \in 1 .. n |-> c + 1] } : n \in 1 .. MaxChannels }

FeatureMaps == UNION { [K -> Tensors] : K \in SUBSET DegreeKeys }

Max(a, b) == IF a >= b THEN a ELSE b

\* a + b on two tensors: PyTorch broadcasts an axis of size 1 against any
\* size and raises when the two sizes differ and neither is 1
Broadcastable(a, b) == Len(a) = Len(b) \/ Len(a) = 1 \/ Len(b) = 1

TensorAdd(a, b) ==
    [c \in 1 .. Max(Len(a), Len(b)) |->
        a[IF Len(a) = 1 THEN 1 ELSE c] + b[IF Len(b) = 1 THEN 1 ELSE c]]

\* mutant: the sum with res is left out
ResidualOut_NoSum(xx, res) == xx

\* the dict `out` when no addition raises: the loop runs over x.items() only
ResidualOut(xx, res) ==
    [degree \in DOMAIN xx |->
        IF degree \in DOMAIN res THEN TensorAdd(xx[degree], res[degree]) ELSE xx[degree]]

\* whether some addition of the loop raises
ResidualRaises(xx, res) ==
    \E degree \in DOMAIN xx :
        degree \in DOMAIN res /\ ~Broadcastable(xx[degree], res[degree])

ResidualInit ==
    /\ pc = "residual"
    /\ res_x \in FeatureMaps
    /\ res_res \in FeatureMaps
    /\ res_out = << >>
    /\ GraphIdle
    /\ ConvIdle
    /\ AttnIdle
    /\ FwdIdle

ResidualReturn ==
    /\ pc = "residual"
    /\ ~ResidualRaises(res_x, res_res)
    /\ res_out' = ResidualOut(res_x, res_res)
    /\ pc' = "returned"
    /\ UNCHANGED <<res_x, res_res>>
    /\ UNCHANGED <<graphVars, convVars, attnVars, fwdVars>>

ResidualRaise ==
    /\ pc = "residual"
    /\ ResidualRaises(res_x, res_res)
    /\ pc' = "raised"
    /\ UNCHANGED <<res_x, res_res, res_out>>
    /\ UNCHANGED <<graphVars, convVars, attnVars, fwdVars>>

ResidualNext == ResidualReturn \/ ResidualRaise

SpecResidual == ResidualInit /\ [][ResidualNext]_vars

\* C7 as stated: the result's keys are the union of the degrees of x and
\* res; a shared degree holds x + res, a degree of x alone holds x's tensor,
\* a degree of res alone holds res's tensor.
C7_ResidualKeysAreUnion ==
    (pc = "returned") =>
        /\ DOMAIN res_out = DOMAIN res_x \cup DOMAIN res_res
        /\ \A d \in DOMAIN res_x \cap DOMAIN res_res :
              d \in DOMAIN res_out /\ res_out[d] = TensorAdd(res_x[d], res_res[d])
        /\ \A d \in DOMAIN res_x \ DOMAIN res_res :
              d \in DOMAIN res_out /\ res_out[d] = res_x[d]
        /\ \A d \in DOMAIN res_res \ DOMAIN res_x :
              d \in DOMAIN res_out /\ res_out[d] = res_res[d]

\* C7 amended: the result's keys are exactly the degrees of x; a shared
\* degree holds the channel-wise sum x + res (a one-channel side broadcast),
\* a degree of x alone holds x's tensor unchanged, and a degree of res alone
\* is absent from the result.
C7_ResidualKeysAreThoseOfX ==
    (pc = "returned") =>
        /\ DOMAIN res_out = DOMAIN res_x
        /\ \A d \in DOMAIN res_x \cap DOMAIN res_res :
              /\ Len(res_out[d]) = Max(Len(res_x[d]), Len(res_res[d]))
              /\ \A c \in 1 .. Len(res_out[d]) :
                    res_out[d][c] = res_x[d][Min(c, Len(res_x[d]))]
                                      + res_res[d][Min(c, Len(res_res[d]))]
        /\ \A d \in DOMAIN res_x \ DOMAIN res_res : res_out[d] = res_x[d]
        /\ \A d \in DOMAIN res_res \ DOMAIN res_x : d \notin DOMAIN res_out

\* a call that returned with a shared degree, a degree of x alone and, in
\* another call, a degree of res alone
C7_Witness ==
    /\ pc = "returned"
    /\ DOMAIN res_x = {"0"}
    /\ DOMAIN res_res = {"0", "1"}
    /\ Len(res_x["0"]) = 2 /\ Len(res_res["0"]) = 2
    /\ DOMAIN res_out = {"0"}

\* C8: the call raises, and returns nothing, whenever x and res share a
\* degree whose two tensors differ in channel count, a count of 1 included.
C8_ResidualRaisesOnChannelMismatch ==
    (pc \in {"returned", "raised"}) =>
        ((\E d \in DOMAIN res_x \cap DOMAIN res_res : Len(res_x[d]) # Len(res_res[d]))
            => pc = "raised")

(***************************************************************************)
(* ConvSE3.forward on its own, for any edge set.                           *)
(***************************************************************************)
CPoints == Points(ConvPoints)
CSlots  == 0 .. (ConvSlots - 1)

\* neighbour indices: every slot the point itself, or the other points in
\* ring order
ConvIndexChoices ==
    { [i \in CPoints |-> [j \in CSlots |-> i]],
      [i \in CPoints |-> [j \in CSlots |-> (i + j + 1) % ConvPoints]] }

ConvMaskChoices == {NoMask} \cup [CPoints -> [CSlots -> BOOLEAN]]

ConvInpChoices(fiber) ==
    { [d \in fiber |-> [i \in CPoints |-> 1]],
      [d \in fiber |-> [i \in CPoints |-> i + d + 1]] }

ConvRelDist == [i \in CPoints |-> [j \in CSlots |-> 1 + i + 2 * j]]

ConvBasisChoices(max_degree) ==
    { [e \in (0 .. max_degree) \X (0 .. max_degree) |->
          [i \in CPoints |-> [j \in CSlots |-> 1 + ((s * (e[1] + i + j)) % 3)]]]
      : s \in {0, 1} }

ConvFibers == { {0}, {0, 1} }

ConvInit ==
    /\ pc = "conv"
    /\ \E fi \in ConvFibers, fo \in ConvFibers, pool \in BOOLEAN, si \in BOOLEAN :
          /\ si => pool      \* assert self.pool, line 337
          /\ \E inp \in ConvInpChoices(fi), ni \in ConvIndexChoices,
                nm \in ConvMaskChoices, bs \in ConvBasisChoices(1),
                p \in ParamChoices :
                conv = [ fiber_in |-> fi, fiber_out |-> fo, pool |-> pool,
                         self_interaction |-> si, params |-> p, inp |-> inp,
                         neighbor_indices |-> ni, neighbor_masks |-> nm,
                         rel_dist |-> ConvRelDist, basis |-> bs ]
    /\ conv_edge = Unset /\ conv_output = Unset /\ conv_outputs = Unset
    /\ GraphIdle
    /\ ResidualIdle
    /\ AttnIdle
    /\ FwdIdle

ConvEdge ==
    ConvEdgeOut(conv.params, conv.fiber_in, conv.fiber_out, conv.inp,
                conv.neighbor_indices, conv.rel_dist, conv.basis)

\* pool = True: lines 354-384
ConvForwardPooled ==
    /\ pc = "conv"
    /\ conv.pool
    /\ conv_edge' = ConvEdge
    /\ conv_output' = ConvPool(ConvEdge, conv.neighbor_masks)
    /\ conv_outputs' = ConvSE3Pooled(conv.params, conv.fiber_in, conv.fiber_out,
                                     conv.self_interaction, conv.inp,
                                     conv.neighbor_indices, conv.neighbor_masks,
                                     conv.rel_dist, conv.basis)
    /\ pc' = "conv done"
    /\ UNCHANGED <<conv, graphVars, residualVars, attnVars, fwdVars>>

\* pool = False: the neighbour axis is kept
ConvForwardUnpooled ==
    /\ pc = "conv"
    /\ ~conv.pool
    /\ conv_edge' = ConvEdge
    /\ conv_output' = ConvEdge
    /\ conv_outputs' = ConvEdge
    /\ pc' = "conv done"
    /\ UNCHANGED <<conv, graphVars, residualVars, attnVars, fwdVars>>

ConvNext == ConvForwardPooled \/ ConvForwardUnpooled

SpecConv == ConvInit /\ [][ConvNext]_vars

ConvValid(i) == { j \in CSlots : conv.neighbor_masks[i][j] }

ConvValidSum(do, i) ==
    SumOver(ConvValid(i), [j \in ConvValid(i) |-> conv_edge[do][i][j]])

\* C9: in a pooled ConvSE3 with a neighbour mask, `output` for every point and
\* output degree is the sum of the per-edge results over the slots whose mask
\* is true, divided by the number of true mask entries of the point: a slot
\* whose mask is false adds nothing to the sum and nothing to the divisor.
\* (The self-interaction term, when the layer has one, is then added to it.)
C9_PooledOutputIsMaskedMean ==
    (pc = "conv done" /\ conv.pool /\ exists(conv.neighbor_masks)) =>
        \A do \in conv.fiber_out : \A i \in CPoints :
            /\ conv_output[do][i].num = ConvValidSum(do, i)
            /\ conv_output[do][i].den = Cardinality(ConvValid(i))
            /\ conv_outputs[do][i] =
                  IF conv.self_interaction /\ do \in conv.fiber_in
                  THEN FracAddInt(conv_output[do][i],
                                  conv.inp[do][i] * LinearWeight(conv.params, do))
                  ELSE conv_output[do][i]

\* a point with one valid and one masked-out slot, the masked-out slot
\* holding a non-zero per-edge result
C9_Witness ==
    /\ pc = "conv done"
    /\ conv.pool
    /\ exists(conv.neighbor_masks)
    /\ \E i \in CPoints : \E j, l \in CSlots :
          /\ conv.neighbor_masks[i][j]
          /\ ~conv.neighbor_masks[i][l]
          /\ conv_edge[0][i][l] # 0
          /\ conv_output[0][i].num # SumOver(CSlots, conv_edge[0][i])

(***************************************************************************)
(* AttentionSE3.forward, with one head of one channel (scale = 1).  The    *)
(* attended slots of a point are, in order: the self slot (attend_self),   *)
(* the null slot, the neighbour slots.  softmax is taken in base 2, which  *)
(* keeps the weights exact: the weight of slot s is Exp(s) / sum of Exp,   *)
(* Exp(s) = 2^(sim[s] - least unmasked sim), and 0 for a masked slot,      *)
(* whose logit -finfo.max underflows against the unmasked null slot.       *)
(***************************************************************************)
AttnParams ==
    [ to_q       |-> [radial_w |-> 0, radial_b |-> 0, linear_w |-> 1],
      to_k       |-> [radial_w |-> 1, radial_b |-> 0, linear_w |-> 0],
      to_v       |-> [radial_w |-> 1, radial_b |-> 1, linear_w |-> 0],
      to_out     |-> [radial_w |-> 0, radial_b |-> 0, linear_w |-> 2],
      to_self_k  |-> [radial_w |-> 0, radial_b |-> 0, linear_w |-> 1],
      to_self_v  |-> [radial_w |-> 0, radial_b |-> 0, linear_w |-> 2],
      null_keys   |-> [d \in {0, 1} |-> d],
      null_values |-> [d \in {0, 1} |-> 1 + d] ]

AttnFeatChoices(fiber) ==
    { [d \in fiber |-> [i \in CPoints |-> 1]],
      [d \in fiber |-> [i \in CPoints |-> (i + d) % 2]] }

AttnRelDist == [i \in CPoints |-> [j \in CSlots |-> (i + j) % 2]]

AttnBasis ==
    [e \in {0, 1} \X {0, 1} |-> [i \in CPoints |-> [j \in CSlots |-> 1]]]

\* lines 185-189
AttnProject(a) ==
    LET p == a.params
        f == a.fiber
    IN  [ queries |-> LinearSE3(p.to_q, f, f, a.features),
          keys    |-> ConvEdgeOut(p.to_k, f, f, a.features, a.neighbor_indices,
                                  a.rel_dist, a.basis),
          values  |-> ConvEdgeOut(p.to_v, f, f, a.features, a.neighbor_indices,
                                  a.rel_dist, a.basis),
          self_keys   |-> LinearSE3(p.to_self_k, f, f, a.features),
          self_values |-> LinearSE3(p.to_self_v, f, f, a.features) ]

\* k and v of one point after the concatenations of lines 199-206, with the
\* padded mask of line 214
AttnSlots(a, qkv, degree, i) ==
    LET nbrs == [j \in 1 .. ConvSlots |->
                    [ k |-> qkv.keys[degree][i][j - 1],
                      v |-> qkv.values[degree][i][j - 1],
                      valid |-> IF exists(a.neighbor_mask)
                                THEN a.neighbor_mask[i][j - 1] ELSE TRUE ]]
        null == << [ k |-> a.params.null_keys[degree],
                     v |-> a.params.null_values[degree], valid |-> TRUE ] >>
        self == << [ k |-> qkv.self_keys[degree][i],
                     v |-> qkv.self_values[degree][i], valid |-> TRUE ] >>
    IN  IF a.attend_self THEN self \o null \o nbrs ELSE null \o nbrs

MinOf(S) == CHOOSE m \in S : \A e \in S : m <= e

\* lines 208-221 for one point: sim, masking, softmax, weighted sum of v
AttnAttend(a, qkv, degree, i) ==
    LET slots == AttnSlots(a, qkv, degree, i)
        sim   == [s \in DOMAIN slots |-> qkv.queries[degree][i] * slots[s].k]
        low   == MinOf({ sim[s] : s \in { t \in DOMAIN slots : slots[t].valid } })
        Exp   == [s \in DOMAIN slots |-> IF slots[s].valid THEN 2 ^ (sim[s] - low) ELSE 0]
    IN  Frac(SumOver(DOMAIN slots, [s \in DOMAIN slots |-> Exp[s] * slots[s].v]),
             SumOver(DOMAIN slots, Exp))

AttnInit ==
    /\ pc = "attn"
    /\ \E f \in ConvFibers, as \in BOOLEAN, ni \in ConvIndexChoices, nm \in ConvMaskChoices :
          \E ft \in AttnFeatChoices(f) :
              attn = [ fiber |-> f, attend_self |-> as, params |-> AttnParams,
                       features |-> ft, neighbor_indices |-> ni, neighbor_mask |-> nm,
                       rel_dist |-> AttnRelDist, basis |-> AttnBasis ]
    /\ attn_qkv = Unset /\ attn_weighted = Unset /\ attn_outputs = Unset
    /\ GraphIdle
    /\ ResidualIdle
    /\ ConvIdle
    /\ FwdIdle

\* lines 185-189: queries, keys, values
AttnProjections ==
    /\ pc = "attn"
    /\ attn_qkv' = AttnProject(attn)
    /\ pc' = "attn loop"
    /\ UNCHANGED <<attn, attn_weighted, attn_outputs, graphVars, residualVars, convVars, fwdVars>>

\* lines 191-222: outputs[degree] for every degree of the features
AttnLoop ==
    /\ pc = "attn loop"
    /\ attn_weighted' = [degree \in attn.fiber |->
                            [i \in CPoints |-> AttnAttend(attn, attn_qkv, degree, i)]]
    /\ pc' = "attn out"
    /\ UNCHANGED <<attn, attn_qkv, attn_outputs, graphVars, residualVars, convVars, fwdVars>>

\* lines 224-225: outputs = self.to_out(queries); return outputs
AttnReturn ==
    /\ pc = "attn out"
    /\ attn_outputs' = LinearSE3(attn.params.to_out, attn.fiber, attn.fiber, attn_qkv.queries)
    /\ pc' = "attn done"
    /\ UNCHANGED <<attn, attn_qkv, attn_weighted, graphVars, residualVars, convVars, fwdVars>>

AttnNext == AttnProjections \/ AttnLoop \/ AttnReturn

SpecAttn == AttnInit /\ [][AttnNext]_vars

\* C2: the returned value is, for every degree, the attention-weighted sum of
\* the values (null, optional self and neighbour values, weighted by the
\* softmax of the query-key scores) projected out by to_out.
C2_OutputIsProjectedWeightedValues ==
    (pc = "attn done") =>
        \A degree \in attn.fiber : \A i \in CPoints :
            FracEq(Frac(attn_outputs[degree][i], 1),
                   Frac(LinearWeight(attn.params.to_out, degree) * attn_weighted[degree][i].num,
                        attn_weighted[degree][i].den))

(***************************************************************************)
(* SE3Transformer.forward at the level of shapes.  A tensor is its shape   *)
(* <<batch, points, channels, spatial>>; a feature map is a function from  *)
(* degrees to shapes.  The dicts of the source are keyed by the decimal    *)
(* string of the degree (str(degree), int(key)); the model keys them by    *)
(* the degree itself.  None is the empty sequence, a given return_type d   *)
(* the sequence <<d>>.  A fiber is a function from degrees to channels.    *)
(***************************************************************************)
heads    == 8
dim_head == 64
mult     == 4

Dims    == { 2, 3 }
Batches == { 1, 2 }

\* Fiber.create(num_degrees, dim) with its channel widths
FiberDims(nd, dim) == [degree \in 0 .. (nd - 1) |-> dim]

\* LinearSE3.forward: einsum('b n d m, d e -> b n e m', x[degree], weight)
LinearShape(fiber_in, fiber_out, xs) ==
    [degree \in DOMAIN fiber_in \cap DOMAIN fiber_out |->
        <<xs[degree][1], xs[degree][2], fiber_out[degree], xs[degree][4]>>]

LinearRaises(fiber_in, fiber_out, xs) ==
    \E degree \in DOMAIN fiber_in \cap DOMAIN fiber_out :
        degree \notin DOMAIN xs \/ xs[degree][3] # fiber_in[degree]

\* NormSE3.forward: (transformed * phase).view(*t.shape)
NormShape(fiber, xs) == xs

NormRaises(fiber, xs) ==
    \E degree \in DOMAIN xs : degree \notin DOMAIN fiber \/ xs[degree][3] # fiber[degree]

\* ResidualSE3.forward on shapes
ResidualShape(xs, res) ==
    [degree \in DOMAIN xs |->
        IF degree \in DOMAIN res
        THEN [ax \in 1 .. 4 |-> Max(xs[degree][ax], res[degree][ax])]
        ELSE xs[degree]]

ResidualShapeRaises(xs, res) ==
    \E degree \in DOMAIN xs \cap DOMAIN res : \E ax \in 1 .. 4 :
        /\ xs[degree][ax] # res[degree][ax]
        /\ xs[degree][ax] # 1
        /\ res[degree][ax] # 1

\* ConvSE3.forward, line 366: x.view(*x.shape[:3], (2 * degree_in + 1) * m_in, 1)
ConvViewRaises(fiber_in, xs) ==
    \E di \in DOMAIN fiber_in :
        \/ di \notin DOMAIN xs
        \/ xs[di][3] * xs[di][4] # (2 * di + 1) * fiber_in[di]

\* mutant: the pooled tensor is returned without the view of line 376
ConvPooledShape_NoView(fiber_in, fiber_out, self_interaction, xs, k) ==
    LET last == CHOOSE di \in DOMAIN fiber_in : \A dj \in DOMAIN fiber_in : dj <= di
    IN  [do \in DOMAIN fiber_out |->
            <<xs[last][1], xs[last][2], (2 * do + 1) * fiber_out[do], 1>>]

\* ConvSE3.forward with pool = True, lines 359-384
ConvPooledShape(fiber_in, fiber_out, self_interaction, xs, k) ==
    LET last == CHOOSE di \in DOMAIN fiber_in : \A dj \in DOMAIN fiber_in : dj <= di
        b    == xs[last][1]
        n    == xs[last][2]
        edge(do)   == <<b, n, k, (2 * do + 1) * fiber_out[do], 1>>
        pooled(do) == <<b, n, edge(do)[4], edge(do)[5]>>
        outputs == [do \in DOMAIN fiber_out |->
                       <<b, n, (pooled(do)[3] * pooled(do)[4]) \div (2 * do + 1), 2 * do + 1>>]
    IN  IF self_interaction
        THEN ResidualShape(outputs, LinearShape(fiber_in, fiber_out, xs))
        ELSE outputs

\* AttentionSE3.forward: outputs = self.to_out(queries)
AttentionShape(fiber, xs) ==
    LET hidden_fiber == [degree \in DOMAIN fiber |-> dim_head * heads]
        queries      == LinearShape(fiber, hidden_fiber, xs)
    IN  LinearShape(hidden_fiber, fiber, queries)

\* AttentionBlockSE3.forward
AttentionBlockShape(fiber, xs) ==
    ResidualShape(AttentionShape(fiber, NormShape(fiber, xs)), xs)

AttentionBlockRaises(fiber, xs) ==
    \/ NormRaises(fiber, xs)
    \/ LinearRaises(fiber, [degree \in DOMAIN fiber |-> dim_head * heads], xs)
    \/ ConvViewRaises(fiber, xs)
    \/ ResidualShapeRaises(AttentionShape(fiber, xs), xs)

\* FeedForwardBlockSE3.forward
FeedForwardBlockShape(fiber, xs) ==
    LET fiber_hidden == [degree \in DOMAIN fiber |-> fiber[degree] * mult]
        inner  == LinearShape(fiber, fiber_hidden, NormShape(fiber, xs))
        outer  == LinearShape(fiber_hidden, fiber, NormShape(fiber_hidden, inner))
    IN  ResidualShape(outer, xs)

FeedForwardBlockRaises(fiber, xs) ==
    LET fiber_hidden == [degree \in DOMAIN fiber |-> fiber[degree] * mult]
        inner  == LinearShape(fiber, fiber_hidden, xs)
    IN  \/ NormRaises(fiber, xs)
        \/ LinearRaises(fiber, fiber_hidden, xs)
        \/ NormRaises(fiber_hidden, inner)
        \/ LinearRaises(fiber_hidden, fiber, inner)
        \/ ResidualShapeRaises(LinearShape(fiber_hidden, fiber, inner), xs)

\* lines 542-545
ForwardReturn(xs, return_type) ==
    IF exists(return_type)
    THEN IF return_type[1] \in DOMAIN xs
         THEN [kind |-> "tensor", value |-> xs[return_type[1]]]
         ELSE [kind |-> "KeyError", value |-> << >>]
    ELSE [kind |-> "map", value |-> xs]

FeatDicts(b, n, dim) ==
    UNION { { [degree \in K |-> <<b, n, w[degree], 2 * degree + 1>>] :
                w \in [K -> {dim, dim + 1}] } : K \in SUBSET (0 .. (MaxDegrees - 1)) }

FeatInputs(b, n, dim) ==
    { [is_tensor |-> TRUE, value |-> <<b, n, d>>] : d \in {dim, dim + 1} }
      \cup { [is_tensor |-> FALSE, value |-> m] : m \in FeatDicts(b, n, dim) }

FwdInit ==
    /\ pc = "fwd"
    /\ \E dim \in Dims, nn \in 1 .. MaxNeighbors, depth \in 0 .. MaxDepth,
          nd \in 1 .. MaxDegrees :
          \E id \in 1 .. nd, od \in 1 .. nd :
              cfg = [ dim |-> dim, num_neighbors |-> nn, depth |-> depth,
                      num_degrees |-> nd, input_degrees |-> id, output_degrees |-> od ]
    /\ \E b \in Batches, n \in 2 .. MaxPoints :
          \E f \in FeatInputs(b, n, cfg.dim),
             rt \in {<< >>} \cup { <<d>> : d \in 0 .. (MaxDegrees - 1) } :
              call = [ b |-> b, n |-> n, feats |-> f, return_type |-> rt ]
    /\ fx = << >>
    /\ fk = 0
    /\ blocks = 0
    /\ result = [kind |-> "none", value |-> << >>]
    /\ GraphIdle
    /\ ResidualIdle
    /\ ConvIdle
    /\ AttnIdle

\* lines 491-492: a raw tensor becomes the degree-0 feature feats[..., None]
FwdFeats ==
    IF call.feats.is_tensor
    THEN [degree \in {0} |-> <<call.feats.value[1], call.feats.value[2], call.feats.value[3], 1>>]
    ELSE call.feats.value

fiber_in     == FiberDims(cfg.input_degrees, cfg.dim)
fiber_hidden == FiberDims(cfg.num_degrees, cfg.dim)
fiber_out    == FiberDims(cfg.output_degrees, cfg.dim)

\* line 494: feats['0'] of a dict without the key '0'
FwdKeyError ==
    /\ pc = "fwd"
    /\ 0 \notin DOMAIN FwdFeats
    /\ pc' = "KeyError"
    /\ UNCHANGED <<fwdVars, graphVars, residualVars, convVars, attnVars>>

\* lines 496-497: one of the two assertions fails
FwdAssertionError ==
    /\ pc = "fwd"
    /\ 0 \in DOMAIN FwdFeats
    /\ \/ FwdFeats[0][3] # cfg.dim
       \/ DOMAIN FwdFeats # 0 .. (cfg.input_degrees - 1)
    /\ pc' = "AssertionError"
    /\ UNCHANGED <<fwdVars, graphVars, residualVars, convVars, attnVars>>

\* lines 491-497 pass
FwdValidated ==
    /\ pc = "fwd"
    /\ 0 \in DOMAIN FwdFeats
    /\ FwdFeats[0][3] = cfg.dim
    /\ DOMAIN FwdFeats = 0 .. (cfg.input_degrees - 1)
    /\ fx' = FwdFeats
    /\ pc' = "fwd graph"
    /\ UNCHANGED <<cfg, call, fk, blocks, result, graphVars, residualVars, convVars, attnVars>>

\* lines 499-531: the neighbour graph has min(num_neighbors, n - 1) slots
FwdBuildGraph ==
    /\ pc = "fwd graph"
    /\ fk' = Min(cfg.num_neighbors, fx[0][2] - 1)
    /\ pc' = "fwd conv_in"
    /\ UNCHANGED <<cfg, call, fx, blocks, result, graphVars, residualVars, convVars, attnVars>>

\* line 534, when a reshape or contraction of conv_in rejects its input
FwdConvInRaises ==
    /\ pc = "fwd conv_in"
    /\ \/ ConvViewRaises(fiber_in, fx)
       \/ LinearRaises(fiber_in, fiber_hidden, fx)
    /\ pc' = "RuntimeError"
    /\ UNCHANGED <<fwdVars, graphVars, residualVars, convVars, attnVars>>

\* line 534
FwdConvIn ==
    /\ pc = "fwd conv_in"
    /\ ~ConvViewRaises(fiber_in, fx)
    /\ ~LinearRaises(fiber_in, fiber_hidden, fx)
    /\ fx' = ConvPooledShape(fiber_in, fiber_hidden, TRUE, fx, fk)
    /\ pc' = IF cfg.depth = 0 THEN "fwd conv_out" ELSE "fwd attn"
    /\ UNCHANGED <<cfg, call, fk, blocks, result, graphVars, residualVars, convVars, attnVars>>

\* line 537
FwdAttentionBlock ==
    /\ pc = "fwd attn"
    /\ ~AttentionBlockRaises(fiber_hidden, fx)
    /\ fx' = AttentionBlockShape(fiber_hidden, fx)
    /\ pc' = "fwd ff"
    /\ UNCHANGED <<cfg, call, fk, blocks, result, graphVars, residualVars, convVars, attnVars>>

\* line 538
FwdFeedForwardBlock ==
    /\ pc = "fwd ff"
    /\ ~FeedForwardBlockRaises(fiber_hidden, fx)
    /\ fx' = FeedForwardBlockShape(fiber_hidden, fx)
    /\ blocks' = blocks + 1
    /\ pc' = IF blocks + 1 < cfg.depth THEN "fwd attn" ELSE "fwd conv_out"
    /\ UNCHANGED <<cfg, call, fk, result, graphVars, residualVars, convVars, attnVars>>

\* line 540
FwdConvOut ==
    /\ pc = "fwd conv_out"
    /\ ~ConvViewRaises(fiber_hidden, fx)
    /\ ~LinearRaises(fiber_hidden, fiber_out, fx)
    /\ fx' = ConvPooledShape(fiber_hidden, fiber_out, TRUE, fx, fk)
    /\ pc' = "fwd return"
    /\ UNCHANGED <<cfg, call, fk, blocks, result, graphVars, residualVars, convVars, attnVars>>

\* lines 542-545
FwdReturn ==
    /\ pc = "fwd return"
    /\ ForwardReturn(fx, call.return_type).kind # "KeyError"
    /\ result' = ForwardReturn(fx, call.return_type)
    /\ pc' = "returned"
    /\ UNCHANGED <<cfg, call, fx, fk, blocks, graphVars, residualVars, convVars, attnVars>>

\* line 543: x[str(return_type)] for a degree the output does not have
FwdReturnKeyError ==
    /\ pc = "fwd return"
    /\ ForwardReturn(fx, call.return_type).kind = "KeyError"
    /\ pc' = "KeyError"
    /\ UNCHANGED <<fwdVars, graphVars, residualVars, convVars, attnVars>>

FwdNext ==
    \/ FwdKeyError
    \/ FwdAssertionError
    \/ FwdValidated
    \/ FwdBuildGraph
    \/ FwdConvInRaises
    \/ FwdConvIn
    \/ FwdAttentionBlock
    \/ FwdFeedForwardBlock
    \/ FwdConvOut
    \/ FwdReturn
    \/ FwdReturnKeyError

SpecForward == FwdInit /\ [][FwdNext]_vars

FwdErrors == { "KeyError", "AssertionError", "RuntimeError" }

\* the supplied features have the configured width in every degree and
\* exactly the degrees 0 .. input_degrees - 1
FwdInputValid ==
    /\ \A degree \in DOMAIN FwdFeats : FwdFeats[degree][3] = cfg.dim
    /\ DOMAIN FwdFeats = 0 .. (cfg.input_degrees - 1)

OutShape(degree) == <<call.b, call.n, cfg.dim, 2 * degree + 1>>

\* C5: for a valid configuration and a valid input, forward without
\* return_type returns a map with exactly the keys 0 .. output_degrees - 1
\* whose tensor for degree d has shape [batch, n, dim, 2d+1]; with
\* return_type = d (d = 0 included) it returns that tensor alone.  No layer
\* rejects its input on the way.
C5_OutputKeysAndShapes ==
    /\ (pc = "returned" /\ ~exists(call.return_type)) =>
          /\ result.kind = "map"
          /\ DOMAIN result.value = 0 .. (cfg.output_degrees - 1)
          /\ \A degree \in DOMAIN result.value : result.value[degree] = OutShape(degree)
    /\ (pc = "returned" /\ exists(call.return_type)) =>
          /\ result.kind = "tensor"
          /\ result.value = OutShape(call.return_type[1])
    /\ (FwdInputValid
          /\ (exists(call.return_type) => call.return_type[1] < cfg.output_degrees))
          => pc \notin FwdErrors
    /\ (pc = "fwd attn") => ~AttentionBlockRaises(fiber_hidden, fx)
    /\ (pc = "fwd ff") => ~FeedForwardBlockRaises(fiber_hidden, fx)
    /\ (pc = "fwd conv_out") =>
          ~(ConvViewRaises(fiber_hidden, fx) \/ LinearRaises(fiber_hidden, fiber_out, fx))

\* return_type = 0 on a two-layer stack with two input and two output degrees
C5_Witness ==
    /\ pc = "returned"
    /\ call.return_type = <<0>>
    /\ cfg.depth = 2
    /\ cfg.input_degrees = 2
    /\ cfg.output_degrees = 2
    /\ result.kind = "tensor"
    /\ result.value = <<call.b, call.n, cfg.dim, 1>>

\* C6: whenever the supplied features have a channel width different from
\* dim, or their degrees are not exactly 0 .. input_degrees - 1, the call
\* fails with the assertion error, before anything else runs and with no
\* other error.
C6_InvalidInputFailsAssertion ==
    (~FwdInputValid /\ pc # "fwd") => pc = "AssertionError"

====
